---- MODULE Spec2Model ----
(***************************************************************************)
(* A model of scripts/generate-rate-limiter-docs.py: one straight-line     *)
(* function, create_rate_limiter_docs, that registers four paragraph       *)
(* styles in reportlab's sample stylesheet, appends blocks to the list     *)
(* `story`, and hands the list to SimpleDocTemplate.build.                 *)
(*                                                                         *)
(* Lengths are in hundredths of an inch (2*inch is 200, 0.3*inch is 30).   *)
(* The three long literals (arch_diagram, integration_code, error_json)    *)
(* are represented by the name of the variable that holds them.            *)
(*                                                                         *)
(* What the script calls into reportlab for is modelled at the call site,  *)
(* with the library's behaviour for that call:                             *)
(*   styles[n]        KeyError when n is not in the stylesheet             *)
(*   styles.add(s)    KeyError when s.name is already in the stylesheet,   *)
(*                    the sheet left as it was                             *)
(*   ParagraphStyle(name, parent, **kw)                                    *)
(*                    the parent's attributes copied at construction, the  *)
(*                    keyword arguments laid over them                     *)
(*   Table(data, colWidths)                                                *)
(*                    ValueError on a ragged grid unless the library       *)
(*                    setting allowShortTableRows is on, and then the      *)
(*                    short rows are padded with ''                        *)
(*   t.setStyle(TableStyle(cmds))                                          *)
(*                    the commands applied in order, each one writing its  *)
(*                    value into every cell of its inclusive rectangle     *)
(***************************************************************************)
EXTENDS Integers, Sequences, FiniteSets, TLC

VARIABLES
    pc,        \* index into Program of the next statement to execute
    status,    \* "running" | "failed" | "done"
    err,       \* the exception that ended the run, "none" while there is none
    run,       \* which invocation of the script this is: 1, or 2 for a re-run
    sample,    \* the names getSampleStyleSheet() provides in this installation
    allowShort,\* the library setting rl_config.allowShortTableRows
    styles,    \* the stylesheet: style name -> style object
    story,     \* the list `story`
    tbl,       \* table variable name -> the Table object it is bound to
    clk,       \* the values datetime.now() returned in this run, in order
    rendered,  \* the sequence doc.build received in this run, <<>> before
    artifact,  \* the destination file: [state, run]
    printed,   \* whether "PDF generated: ..." was printed in this run
    prev,      \* [story, clk]: what the first invocation built, in a re-run
    reg,       \* SpecReg: log of the registrations attempted
    tab        \* SpecTable, SpecStyle: the table constructed and styled

vars == <<pc, status, err, run, sample, allowShort, styles, story, tbl, clk, rendered,
          artifact, printed, prev, reg, tab>>

---------------------------------------------------------------------------
(* Bounds of the model *)

\* how many styles.add calls a behaviour of SpecReg makes
MaxRegs == 3
\* SpecTable draws grids of 1..MaxRows rows
MaxRows == 2
\* ... of 1..MaxCols cells each, and as many column widths
MaxCols == 3
\* how many style commands a behaviour of SpecStyle applies
MaxCmds == 2
\* datetime.now() returns a day in 0..MaxDay
MaxDay == 1
\* ... and an hour:minute in 0..MaxMinute
MaxMinute == 0

---------------------------------------------------------------------------
(* Paragraph styles *)

\* The attributes the script sets on its styles (lines 42-44, 50-53, 59-62,
\* 68-71, 471).
AttrKeys == {"fontSize", "spaceBefore", "spaceAfter", "textColor",
             "leftIndent", "backColor", "borderPadding"}

\* ParagraphStyle's own defaults for those attributes: what a style with no
\* parent has for a key it does not set.
StyleDefaults ==
    [fontSize |-> "10", spaceBefore |-> "0", spaceAfter |-> "0",
     textColor |-> "black", leftIndent |-> "0", backColor |-> "None",
     borderPadding |-> "0"]

\* no keyword arguments
NoKw == [k \in {} |-> ""]

NoStyle == [name |-> "", parent |-> "", own |-> NoKw, attrs |-> NoKw]

\* the parent's attributes laid over the keyword arguments
ParagraphStyleParentWins(name, parent, kw) ==
    LET base == IF parent = NoStyle THEN StyleDefaults ELSE parent.attrs
    IN  [name   |-> name,
         parent |-> parent.name,
         own    |-> kw,
         attrs  |-> [k \in DOMAIN base |->
                        IF parent = NoStyle /\ k \in DOMAIN kw THEN kw[k]
                        ELSE base[k]]]

\* ParagraphStyle(name=name, parent=parent, **kw): the new object takes every
\* attribute of the parent object (the defaults when there is none) and then
\* the keyword arguments.  `parent` is a style object or NoStyle.
ParagraphStyle(name, parent, kw) ==
    LET base == IF parent = NoStyle THEN StyleDefaults ELSE parent.attrs
    IN  [name   |-> name,
         parent |-> parent.name,
         own    |-> kw,
         attrs  |-> [k \in DOMAIN base |->
                        IF k \in DOMAIN kw THEN kw[k] ELSE base[k]]]

\* The names the script looks up in the sample stylesheet without having
\* added them itself (lines 41, 49, 58, 67, 79, 81, 170).
SampleNames == {"Title", "Heading1", "Heading2", "Code", "Normal"}

\* getSampleStyleSheet(): the installed library's sheet.  Its styles carry
\* the library's values, which the script never reads; they are modelled as
\* parentless styles with the defaults.
getSampleStyleSheet(names) ==
    [n \in names |-> ParagraphStyle(n, NoStyle, NoKw)]

\* styles[name] succeeds
HasStyle(sheet, name) == name \in DOMAIN sheet

\* styles.add(style) on a sheet that does not hold style.name
StylesAdd(sheet, style) ==
    [n \in DOMAIN sheet \cup {style.name} |->
        IF n = style.name THEN style ELSE sheet[n]]

---------------------------------------------------------------------------
(* The statements of create_rate_limiter_docs, in source order *)

Para(text, styleName, line) ==
    [op |-> "para", text |-> text, style |-> styleName, line |-> line]
Pre(text, styleName, line) ==
    [op |-> "pre", text |-> text, style |-> styleName, line |-> line]
SpacerStmt(w, h, line) == [op |-> "spacer", w |-> w, h |-> h, line |-> line]
PageBreakStmt(line) == [op |-> "pagebreak", line |-> line]
AddStyle(name, parentName, kw, line) ==
    [op |-> "add", name |-> name, parent |-> parentName, kw |-> kw,
     line |-> line]
NewTable(var, data, colWidths, line) ==
    [op |-> "table", var |-> var, data |-> data, colWidths |-> colWidths,
     line |-> line]
SetStyle(var, cmds, line) ==
    [op |-> "setstyle", var |-> var, cmds |-> cmds, line |-> line]
AppendTable(var, line) == [op |-> "appendtable", var |-> var, line |-> line]

\* one TableStyle command (op, (sc, sr), (ec, er), value): columns first,
\* negative indices counting from the end
Cmd(op, sc, sr, ec, er, val) ==
    [op |-> op, sc |-> sc, sr |-> sr, ec |-> ec, er |-> er, val |-> val]

\* lines 23-74: destination, template, stylesheet, the four styles.add, story
Setup ==
    << [op |-> "makedirs", line |-> 25],
       [op |-> "template", line |-> 27],
       [op |-> "sheet", line |-> 36],
       AddStyle("MainTitle", "Title",
                [fontSize |-> "28", spaceAfter |-> "30",
                 textColor |-> "#1a1a2e"], 39),
       AddStyle("SectionTitle", "Heading1",
                [fontSize |-> "18", spaceBefore |-> "20",
                 spaceAfter |-> "12", textColor |-> "#16213e"], 47),
       AddStyle("SubSection", "Heading2",
                [fontSize |-> "14", spaceBefore |-> "15",
                 spaceAfter |-> "8", textColor |-> "#0f3460"], 56),
       AddStyle("CodeBlock", "Code",
                [fontSize |-> "9", leftIndent |-> "20",
                 backColor |-> "#f4f4f4", borderPadding |-> "10"], 65),
       [op |-> "newstory", line |-> 74] >>

\* lines 76-86
Cover ==
    << SpacerStmt(1, 200, 77),
       Para("Redis Rate Limiter", "MainTitle", 78),
       Para("Production Documentation", "Heading2", 79),
       SpacerStmt(1, 50, 80),
       Para("Token Bucket Algorithm with Distributed State", "Normal", 81),
       SpacerStmt(1, 100, 82),
       Para("Version 1.0.0", "Normal", 83),
       [op |-> "stamp", text |-> "Generated: ", style |-> "Normal",
        line |-> 84],
       Para("Jules MCP Server - Antigravity Orchestration", "Normal", 85),
       PageBreakStmt(86) >>

\* a table of contents left as it was before a section was moved: the page
\* of "Tier Configuration" is stale
toc_data_stale ==
    << <<"1.", "Architecture Overview", "3">>,
       <<"2.", "Tier Configuration", "3">>,
       <<"3.", "Integration Guide", "5">>,
       <<"4.", "Security Audit Results", "6">>,
       <<"5.", "API Reference", "7">>,
       <<"6.", "Metrics & Monitoring", "8">> >>

toc_data ==
    << <<"1.", "Architecture Overview", "3">>,
       <<"2.", "Tier Configuration", "4">>,
       <<"3.", "Integration Guide", "5">>,
       <<"4.", "Security Audit Results", "6">>,
       <<"5.", "API Reference", "7">>,
       <<"6.", "Metrics & Monitoring", "8">> >>

\* the table of contents appended to story before it is styled
TocStyledAfterAppend ==
    << Para("Table of Contents", "SectionTitle", 89),
       NewTable("toc_table", toc_data, <<50, 400, 50>>, 98),
       AppendTable("toc_table", 105),
       SetStyle("toc_table",
                << Cmd("FONTNAME", 0, 0, -1, -1, "Helvetica"),
                   Cmd("FONTSIZE", 0, 0, -1, -1, "11"),
                   Cmd("BOTTOMPADDING", 0, 0, -1, -1, "8"),
                   Cmd("ALIGN", 2, 0, 2, -1, "RIGHT") >>, 99),
       PageBreakStmt(106) >>

\* lines 88-106
Toc ==
    << Para("Table of Contents", "SectionTitle", 89),
       NewTable("toc_table", toc_data, <<50, 400, 50>>, 98),
       SetStyle("toc_table",
                << Cmd("FONTNAME", 0, 0, -1, -1, "Helvetica"),
                   Cmd("FONTSIZE", 0, 0, -1, -1, "11"),
                   Cmd("BOTTOMPADDING", 0, 0, -1, -1, "8"),
                   Cmd("ALIGN", 2, 0, 2, -1, "RIGHT") >>, 99),
       AppendTable("toc_table", 105),
       PageBreakStmt(106) >>

\* lines 108-171
Section1 ==
    << Para("1. Architecture Overview", "SectionTitle", 109),
       Para("System Architecture", "SubSection", 111),
       Para("The rate limiter implements a distributed token bucket algorithm using Redis for state management. It supports per-API-key rate limiting with tiered configurations and graceful failover to local memory when Redis is unavailable.",
            "Normal", 112),
       SpacerStmt(1, 30, 118),
       Para("Architecture Diagram", "SubSection", 169),
       Pre("arch_diagram", "Code", 170),
       PageBreakStmt(171) >>

\* the tier rows with the Pro row left out
tier_data_no_pro ==
    << <<"Tier", "Requests/Min", "Burst Capacity", "Refill Rate", "Window",
         "Bypass">>,
       <<"Free", "100", "150", "1.67/sec", "60s", "No">>,
       <<"Enterprise", "10,000", "15,000", "166.67/sec", "60s", "Yes">> >>

tier_data ==
    << <<"Tier", "Requests/Min", "Burst Capacity", "Refill Rate", "Window",
         "Bypass">>,
       <<"Free", "100", "150", "1.67/sec", "60s", "No">>,
       <<"Pro", "1,000", "1,500", "16.67/sec", "60s", "No">>,
       <<"Enterprise", "10,000", "15,000", "166.67/sec", "60s", "Yes">> >>

\* the endpoint rows with the last cell of the last row left out
endpoint_data_short ==
    << <<"Endpoint", "Free", "Pro", "Enterprise", "Cost Multiplier">>,
       <<"/mcp/execute", "20/min", "200/min", "2,000/min", "5x / 2x / 1x">>,
       <<"/api/sessions", "10/min", "100/min", "1,000/min">> >>

endpoint_data ==
    << <<"Endpoint", "Free", "Pro", "Enterprise", "Cost Multiplier">>,
       <<"/mcp/execute", "20/min", "200/min", "2,000/min", "5x / 2x / 1x">>,
       <<"/api/sessions", "10/min", "100/min", "1,000/min",
         "10x / 5x / 1x">> >>

\* lines 173-230
Section2 ==
    << Para("2. Tier Configuration", "SectionTitle", 174),
       Para("The rate limiter supports three tiers with configurable limits. Each tier uses the token bucket algorithm with different refill rates and burst capacities.",
            "Normal", 176),
       SpacerStmt(1, 20, 181),
       NewTable("tier_table", tier_data, <<110, 110, 110, 100, 70, 70>>, 191),
       SetStyle("tier_table",
                << Cmd("BACKGROUND", 0, 0, -1, 0, "#16213e"),
                   Cmd("TEXTCOLOR", 0, 0, -1, 0, "white"),
                   Cmd("ALIGN", 0, 0, -1, -1, "CENTER"),
                   Cmd("FONTNAME", 0, 0, -1, 0, "Helvetica-Bold"),
                   Cmd("FONTSIZE", 0, 0, -1, -1, "10"),
                   Cmd("BOTTOMPADDING", 0, 0, -1, 0, "12"),
                   Cmd("TOPPADDING", 0, 0, -1, 0, "12"),
                   Cmd("BACKGROUND", 0, 1, -1, 1, "#e8f4f8"),
                   Cmd("BACKGROUND", 0, 2, -1, 2, "#d4edda"),
                   Cmd("BACKGROUND", 0, 3, -1, 3, "#fff3cd"),
                   Cmd("GRID", 0, 0, -1, -1, "1 grey"),
                   Cmd("BOTTOMPADDING", 0, 1, -1, -1, "8"),
                   Cmd("TOPPADDING", 0, 1, -1, -1, "8") >>, 192),
       AppendTable("tier_table", 207),
       SpacerStmt(1, 30, 208),
       Para("Endpoint-Specific Overrides", "SubSection", 211),
       NewTable("endpoint_table", endpoint_data, <<150, 90, 90, 100, 130>>,
                218),
       SetStyle("endpoint_table",
                << Cmd("BACKGROUND", 0, 0, -1, 0, "#0f3460"),
                   Cmd("TEXTCOLOR", 0, 0, -1, 0, "white"),
                   Cmd("ALIGN", 0, 0, -1, -1, "CENTER"),
                   Cmd("FONTNAME", 0, 0, -1, 0, "Helvetica-Bold"),
                   Cmd("FONTSIZE", 0, 0, -1, -1, "9"),
                   Cmd("GRID", 0, 0, -1, -1, "1 grey"),
                   Cmd("BOTTOMPADDING", 0, 0, -1, -1, "8"),
                   Cmd("TOPPADDING", 0, 0, -1, -1, "8") >>, 219),
       AppendTable("endpoint_table", 229),
       PageBreakStmt(230) >>

env_data ==
    << <<"Variable", "Description", "Default">>,
       <<"REDIS_URL", "Redis connection string", "redis://localhost:6379">>,
       <<"RATE_LIMIT_FAILOVER", "Failover strategy", "fail-closed">> >>

headers_data ==
    << <<"Header", "Description", "Example">>,
       <<"RateLimit-Limit", "Maximum requests per window", "100">>,
       <<"RateLimit-Remaining", "Requests remaining in window", "42">>,
       <<"RateLimit-Reset", "Unix timestamp when window resets",
         "1702814460">>,
       <<"Retry-After", "Seconds until next request allowed", "45">>,
       <<"X-RateLimit-*", "Legacy headers (backward compat)",
         "Same as above">> >>

\* lines 232-302
Section3 ==
    << Para("3. Integration Guide", "SectionTitle", 233),
       Para("Quick Start", "SubSection", 235),
       Pre("integration_code", "Code", 263),
       SpacerStmt(1, 20, 264),
       Para("Environment Variables", "SubSection", 266),
       NewTable("env_table", env_data, <<180, 250, 150>>, 272),
       SetStyle("env_table",
                << Cmd("BACKGROUND", 0, 0, -1, 0, "#16213e"),
                   Cmd("TEXTCOLOR", 0, 0, -1, 0, "white"),
                   Cmd("FONTNAME", 0, 0, -1, 0, "Helvetica-Bold"),
                   Cmd("GRID", 0, 0, -1, -1, "1 grey"),
                   Cmd("BOTTOMPADDING", 0, 0, -1, -1, "8") >>, 273),
       AppendTable("env_table", 280),
       SpacerStmt(1, 20, 281),
       Para("Response Headers", "SubSection", 283),
       NewTable("headers_table", headers_data, <<150, 250, 120>>, 292),
       SetStyle("headers_table",
                << Cmd("BACKGROUND", 0, 0, -1, 0, "#0f3460"),
                   Cmd("TEXTCOLOR", 0, 0, -1, 0, "white"),
                   Cmd("FONTNAME", 0, 0, -1, 0, "Helvetica-Bold"),
                   Cmd("FONTSIZE", 0, 0, -1, -1, "9"),
                   Cmd("GRID", 0, 0, -1, -1, "1 grey"),
                   Cmd("BOTTOMPADDING", 0, 0, -1, -1, "6") >>, 293),
       AppendTable("headers_table", 301),
       PageBreakStmt(302) >>

security_data ==
    << <<"Category", "Status", "Details">>,
       <<"API Key Handling", "SECURE",
         "SHA-256 hashing, no plaintext storage">>,
       <<"Redis Connection", "SECURE",
         "Supports TLS via REDIS_URL, auth included">>,
       <<"Input Validation", "SECURE",
         "All inputs sanitized, hashed before use">>,
       <<"DoS Protection", "SECURE", "Cache size limits, LRU eviction">>,
       <<"Information Disclosure", "LOW RISK",
         "Tier info in responses (acceptable)">>,
       <<"Race Conditions", "MITIGATED", "Atomic Lua scripts in Redis">>,
       <<"Memory Safety", "FIXED", "Added LRU eviction to tier cache">> >>

vuln_checks ==
    << "SQL Injection - N/A (no SQL queries)",
       "XSS - N/A (JSON-only responses)",
       "CSRF - N/A (API key authentication)",
       "Timing Attacks - Mitigated by key hashing",
       "Denial of Service - Protected by rate limiting itself",
       "Redis Injection - Prevented by parameterized Lua scripts" >>

\* lines 304-358; the loop of lines 356-357 appends one paragraph per entry
\* of vuln_checks (CHECK stands for the check-mark character)
Section4 ==
    << Para("4. Security Audit Results", "SectionTitle", 305),
       Para("A comprehensive security audit was performed on the rate limiter implementation. The following areas were analyzed:",
            "Normal", 307),
       SpacerStmt(1, 20, 312),
       NewTable("security_table", security_data, <<150, 100, 300>>, 326),
       SetStyle("security_table",
                << Cmd("BACKGROUND", 0, 0, -1, 0, "#16213e"),
                   Cmd("TEXTCOLOR", 0, 0, -1, 0, "white"),
                   Cmd("FONTNAME", 0, 0, -1, 0, "Helvetica-Bold"),
                   Cmd("FONTSIZE", 0, 0, -1, -1, "9"),
                   Cmd("GRID", 0, 0, -1, -1, "1 grey"),
                   Cmd("BACKGROUND", 1, 1, 1, 1, "#d4edda"),
                   Cmd("BACKGROUND", 1, 2, 1, 2, "#d4edda"),
                   Cmd("BACKGROUND", 1, 3, 1, 3, "#d4edda"),
                   Cmd("BACKGROUND", 1, 4, 1, 4, "#d4edda"),
                   Cmd("BACKGROUND", 1, 5, 1, 5, "#fff3cd"),
                   Cmd("BACKGROUND", 1, 6, 1, 6, "#d4edda"),
                   Cmd("BACKGROUND", 1, 7, 1, 7, "#d4edda"),
                   Cmd("BOTTOMPADDING", 0, 0, -1, -1, "8"),
                   Cmd("TOPPADDING", 0, 0, -1, -1, "8") >>, 327),
       AppendTable("security_table", 344),
       SpacerStmt(1, 30, 345),
       Para("Vulnerabilities Checked", "SubSection", 347) >>
    \o [i \in 1..Len(vuln_checks) |->
           Para("CHECK " \o vuln_checks[i], "Normal", 357)]
    \o << PageBreakStmt(358) >>

api_data ==
    << <<"Method", "Parameters", "Returns", "Description">>,
       <<"initialize()", "None", "Promise<boolean>",
         "Connect to Redis, load Lua script">>,
       <<"middleware()", "None", "Express middleware",
         "Create rate limiting middleware">>,
       <<"getTier(apiKey)", "string", "Promise<string>",
         "Get tier for API key">>,
       <<"setTier(apiKey, tier)", "string, string", "Promise<boolean>",
         "Set tier for API key">>,
       <<"getMetrics()", "None", "object", "Get current metrics">>,
       <<"close()", "None", "Promise<void>", "Close Redis connection">> >>

\* lines 360-412
Section5 ==
    << Para("5. API Reference", "SectionTitle", 361),
       Para("RedisRateLimiter Class", "SubSection", 363),
       NewTable("api_table", api_data, <<130, 120, 130, 200>>, 375),
       SetStyle("api_table",
                << Cmd("BACKGROUND", 0, 0, -1, 0, "#16213e"),
                   Cmd("TEXTCOLOR", 0, 0, -1, 0, "white"),
                   Cmd("FONTNAME", 0, 0, -1, 0, "Helvetica-Bold"),
                   Cmd("FONTSIZE", 0, 0, -1, -1, "9"),
                   Cmd("GRID", 0, 0, -1, -1, "1 grey"),
                   Cmd("BOTTOMPADDING", 0, 0, -1, -1, "6"),
                   Cmd("VALIGN", 0, 0, -1, -1, "TOP") >>, 376),
       AppendTable("api_table", 385),
       SpacerStmt(1, 30, 386),
       Para("Error Response Format", "SubSection", 388),
       Pre("error_json", "Code", 411),
       PageBreakStmt(412) >>

metrics_data ==
    << <<"Metric", "Type", "Description">>,
       <<"totalRequests", "Counter", "Total requests processed">>,
       <<"allowedRequests", "Counter", "Requests allowed through">>,
       <<"deniedRequests", "Counter", "Requests denied (429)">>,
       <<"redisErrors", "Counter", "Redis connection errors">>,
       <<"failoverActivations", "Counter", "Failover mode activations">>,
       <<"requestsByTier", "Counter",
         "Requests per tier (free/pro/enterprise)">>,
       <<"redisConnected", "Gauge", "Redis connection status">>,
       <<"failoverCacheSize", "Gauge", "Current failover cache size">>,
       <<"allowRate", "Gauge", "Percentage of allowed requests">>,
       <<"denyRate", "Gauge", "Percentage of denied requests">>,
       <<"requestsPerSecond", "Gauge", "Current request throughput">> >>

alerts ==
    << <<"High Deny Rate", "> 10%",
         "Indicates potential abuse or misconfigured limits">>,
       <<"Redis Disconnected", "redisConnected = false",
         "Rate limiter in failover mode">>,
       <<"High Failover Cache", "> 5000 entries",
         "Memory pressure during Redis outage">>,
       <<"Error Rate Spike", "> 5 errors/min", "Redis connection issues">> >>

\* lines 414-472; the loop of lines 458-459 appends one paragraph per alert
\* (RULE*60 stands for sixty heavy-rule characters); the footer paragraph is
\* styled with a ParagraphStyle built on the spot, not with one of the sheet
Section6 ==
    << Para("6. Metrics & Monitoring", "SectionTitle", 415),
       Para("The rate limiter exposes Prometheus-ready metrics for monitoring. Access metrics via the /api/rate-limit/metrics endpoint.",
            "Normal", 417),
       SpacerStmt(1, 20, 422),
       NewTable("metrics_table", metrics_data, <<150, 80, 350>>, 439),
       SetStyle("metrics_table",
                << Cmd("BACKGROUND", 0, 0, -1, 0, "#16213e"),
                   Cmd("TEXTCOLOR", 0, 0, -1, 0, "white"),
                   Cmd("FONTNAME", 0, 0, -1, 0, "Helvetica-Bold"),
                   Cmd("FONTSIZE", 0, 0, -1, -1, "9"),
                   Cmd("GRID", 0, 0, -1, -1, "1 grey"),
                   Cmd("BOTTOMPADDING", 0, 0, -1, -1, "6") >>, 440),
       AppendTable("metrics_table", 448),
       SpacerStmt(1, 30, 449),
       Para("Recommended Alerts", "SubSection", 451) >>
    \o [i \in 1..Len(alerts) |->
           Para("<b>" \o alerts[i][1] \o "</b> (" \o alerts[i][2] \o "): "
                \o alerts[i][3], "Normal", 459)]
    \o << SpacerStmt(1, 50, 461),
          Para("RULE*60", "Normal", 464),
          [op |-> "footer",
           text |-> "Generated by Claude Code on {date} | Jules MCP Server v2.4.0 | Antigravity Orchestration",
           name |-> "Footer", parent |-> "Normal",
           kw |-> [fontSize |-> "8", textColor |-> "grey"], line |-> 468] >>

\* lines 474-477
Finish ==
    << [op |-> "build", line |-> 475],
       [op |-> "print", line |-> 476],
       [op |-> "return", line |-> 477] >>

Program ==
    Setup \o Cover \o Toc \o Section1 \o Section2 \o Section3 \o Section4
          \o Section5 \o Section6 \o Finish

---------------------------------------------------------------------------
(* Tables *)

RECURSIVE MaxRowLen(_)
\* max(map(len, data)), 0 for no rows
MaxRowLen(data) ==
    IF data = <<>> THEN 0
    ELSE LET m == MaxRowLen(Tail(data))
         IN  IF Len(Head(data)) > m THEN Len(Head(data)) ELSE m

\* a row padded with '' to n cells
PadRow(row, n) == [j \in 1..n |-> IF j <= Len(row) THEN row[j] ELSE ""]

\* a width list cut to n entries, or extended to n with None (written 0: the
\* width is then computed at layout)
FitWidths(ws, n) ==
    [j \in 1..n |-> IF j <= Len(ws) THEN ws[j] ELSE 0]

\* whether every row has as many cells as there are column widths
Rectangular(data, colWidths) ==
    \A i \in 1..Len(data) : Len(data[i]) = Len(colWidths)

\* the style every cell starts with: no command has touched any attribute
DefaultCell == [op \in {} |-> ""]

\* Table(data, colWidths=colWidths): [ok, data, colWidths, cells].  The grid
\* has as many columns as its longest row.  A width list or a row of another
\* length is an error, unless short rows are allowed: then the widths are cut
\* or extended and the short rows padded.
TableNew(data, colWidths, short) ==
    LET ncols == MaxRowLen(data)
        bad   == [ok |-> FALSE, data |-> <<>>, colWidths |-> <<>>,
                  cells |-> <<>>]
    IN  IF Len(data) = 0 \/ ncols = 0 THEN bad
        ELSE IF ~Rectangular(data, colWidths) /\ ~short THEN bad
        ELSE IF Len(colWidths) = 0 THEN bad
        ELSE [ok        |-> TRUE,
              data      |-> [i \in 1..Len(data) |-> PadRow(data[i], ncols)],
              colWidths |-> FitWidths(colWidths, ncols),
              cells     |-> [i \in 1..Len(data) |->
                                [j \in 1..ncols |-> DefaultCell]]]

\* a command's index made absolute: a negative one counts from the end
AbsIndex(k, n) == IF k < 0 THEN k + n ELSE k

\* whether command c covers the cell in (0-based) row r, column col of a grid
\* of nrows x ncols: its inclusive rectangle from (sc, sr) to (ec, er)
Covers(c, r, col, nrows, ncols) ==
    /\ AbsIndex(c.sr, nrows) <= r /\ r <= AbsIndex(c.er, nrows)
    /\ AbsIndex(c.sc, ncols) <= col /\ col <= AbsIndex(c.ec, ncols)

\* a cell style with attribute op set to val
SetAttr(cell, op, val) ==
    [o \in DOMAIN cell \cup {op} |-> IF o = op THEN val ELSE cell[o]]

\* a command that leaves alone what an earlier command has set
ApplyCmdFirstWins(cells, c) ==
    LET nrows == Len(cells)
        ncols == Len(cells[1])
    IN  [i \in 1..nrows |-> [j \in 1..ncols |->
            IF Covers(c, i - 1, j - 1, nrows, ncols)
               /\ c.op \notin DOMAIN cells[i][j]
            THEN SetAttr(cells[i][j], c.op, c.val)
            ELSE cells[i][j]]]

\* one command applied to the grid of cell styles
ApplyCmd(cells, c) ==
    LET nrows == Len(cells)
        ncols == Len(cells[1])
    IN  [i \in 1..nrows |-> [j \in 1..ncols |->
            IF Covers(c, i - 1, j - 1, nrows, ncols)
            THEN SetAttr(cells[i][j], c.op, c.val)
            ELSE cells[i][j]]]

RECURSIVE ApplyCmds(_, _)
\* the commands of a TableStyle applied in the order they are listed
ApplyCmds(cells, cmds) ==
    IF cmds = <<>> THEN cells
    ELSE ApplyCmds(ApplyCmd(cells, Head(cmds)), Tail(cmds))

\* t.setStyle(TableStyle(cmds))
TableSetStyle(t, cmds) == [t EXCEPT !.cells = ApplyCmds(t.cells, cmds)]

NoTable == [ok |-> FALSE, data |-> <<>>, colWidths |-> <<>>, cells |-> <<>>]

---------------------------------------------------------------------------
(* The run of the script *)

\* the elements of story
Block(kind, text, style, arg, ref) ==
    [kind |-> kind, text |-> text, style |-> style, arg |-> arg, ref |-> ref]

\* datetime.now(): a day and an hour:minute within it
Clock == [day : 0..MaxDay, minute : 0..MaxMinute]

\* now.strftime('%Y-%m-%d %H:%M') (line 84)
FormatMinute(now) == <<now.day, now.minute>>

\* now.strftime('%Y-%m-%d') (line 469)
FormatDay(now) == <<now.day>>

\* what the renderer sees of a block: a table block is the Table object the
\* list element refers to, as that object is now
ViewBlock(b, tables) ==
    [kind  |-> b.kind, text |-> b.text, style |-> b.style, arg |-> b.arg,
     table |-> IF b.kind = "Table" THEN tables[b.ref] ELSE NoTable]

View(flow, tables) == [i \in 1..Len(flow) |-> ViewBlock(flow[i], tables)]

NoTables == [v \in {} |-> NoTable]
NoStyles == [n \in {} |-> NoStyle]
NoPrev == [story |-> <<>>, clk |-> <<>>]

\* the installations the script may run in: every sample stylesheet that is
\* a selection of the names the script relies on
Init ==
    /\ pc = 1
    /\ status = "running"
    /\ err = "none"
    /\ run = 1
    /\ sample \in SUBSET SampleNames
    /\ allowShort \in BOOLEAN
    /\ styles = NoStyles
    /\ story = <<>>
    /\ tbl = NoTables
    /\ clk = <<>>
    /\ rendered = <<>>
    /\ artifact = [state |-> "absent", run |-> 0]
    /\ printed = FALSE
    /\ prev = NoPrev
    /\ reg = <<>>
    /\ tab = NoTable

Stmt == Program[pc]

At(op) == status = "running" /\ pc <= Len(Program) /\ Stmt.op = op

Step == pc' = pc + 1 /\ UNCHANGED <<status, err>>

\* the exception caught and dropped, the script going on with its next
\* statement
RaiseSwallowed(e) == Step

\* an uncaught exception: the function is left, the process exits non-zero
Raise(e) ==
    /\ status' = "failed"
    /\ err' = e
    /\ UNCHANGED pc

\* line 25: os.makedirs(..., exist_ok=True)
MakeDirs ==
    /\ At("makedirs")
    /\ \/ Step
       \/ Raise("OSError")
    /\ UNCHANGED <<run, sample, allowShort, styles, story, tbl, clk, rendered,
                   artifact, printed, prev, reg, tab>>

\* lines 27-34: SimpleDocTemplate(output_path, ...) keeps the path; nothing
\* is opened or written
Template ==
    /\ At("template")
    /\ Step
    /\ UNCHANGED <<run, sample, allowShort, styles, story, tbl, clk, rendered,
                   artifact, printed, prev, reg, tab>>

\* line 36
Sheet ==
    /\ At("sheet")
    /\ styles' = getSampleStyleSheet(sample)
    /\ Step
    /\ UNCHANGED <<run, sample, allowShort, story, tbl, clk, rendered,
                   artifact, printed, prev, reg, tab>>

\* a style added under a name the sheet already holds, replacing the old one
RegisterOverwriting(sheet, name, parentName, kw) ==
    IF parentName # "" /\ ~HasStyle(sheet, parentName)
    THEN [ok |-> FALSE, err |-> "KeyError: parent not found", sheet |-> sheet]
    ELSE [ok |-> TRUE, err |-> "none",
          sheet |-> StylesAdd(sheet,
                       ParagraphStyle(name,
                          IF parentName = "" THEN NoStyle
                          ELSE sheet[parentName], kw))]

\* styles.add(ParagraphStyle(name=..., parent=styles[...], ...)) on `sheet`:
\* the parent is looked up first, then the style is built, then added.  A
\* parentName of "" is a ParagraphStyle given no parent.
Register(sheet, name, parentName, kw) ==
    IF parentName # "" /\ ~HasStyle(sheet, parentName)
    THEN [ok |-> FALSE, err |-> "KeyError: parent not found", sheet |-> sheet]
    ELSE IF HasStyle(sheet, name)
    THEN [ok |-> FALSE, err |-> "KeyError: already defined", sheet |-> sheet]
    ELSE [ok |-> TRUE, err |-> "none",
          sheet |-> StylesAdd(sheet,
                       ParagraphStyle(name,
                          IF parentName = "" THEN NoStyle
                          ELSE sheet[parentName], kw))]

\* lines 39-72: one styles.add
Add ==
    /\ At("add")
    /\ LET r == Register(styles, Stmt.name, Stmt.parent, Stmt.kw)
       IN  /\ styles' = r.sheet
           /\ IF r.ok THEN Step ELSE Raise(r.err)
    /\ UNCHANGED <<run, sample, allowShort, story, tbl, clk, rendered,
                   artifact, printed, prev, reg, tab>>

\* line 74
NewStory ==
    /\ At("newstory")
    /\ story' = <<>>
    /\ Step
    /\ UNCHANGED <<run, sample, allowShort, styles, tbl, clk, rendered,
                   artifact, printed, prev, reg, tab>>

\* every paragraph carrying the date the run last read from the clock
AppendTextWithClock ==
    /\ At("para") \/ At("pre")
    /\ IF HasStyle(styles, Stmt.style)
       THEN /\ story' = Append(story,
                   Block(IF Stmt.op = "para" THEN "Paragraph"
                         ELSE "Preformatted",
                         Stmt.text, styles[Stmt.style],
                         IF clk = <<>> THEN <<>>
                         ELSE FormatDay(clk[Len(clk)]), ""))
            /\ Step
       ELSE /\ Raise("KeyError: style not found")
            /\ UNCHANGED story
    /\ UNCHANGED <<run, sample, allowShort, styles, tbl, clk, rendered,
                   artifact, printed, prev, reg, tab>>

\* every text block styled with a ParagraphStyle built on the spot
AppendTextInlineStyle ==
    /\ At("para") \/ At("pre")
    /\ IF HasStyle(styles, Stmt.style)
       THEN /\ story' = Append(story,
                   Block(IF Stmt.op = "para" THEN "Paragraph"
                         ELSE "Preformatted",
                         Stmt.text,
                         ParagraphStyle(Stmt.style, NoStyle, NoKw), <<>>, ""))
            /\ Step
       ELSE /\ Raise("KeyError: style not found")
            /\ UNCHANGED story
    /\ UNCHANGED <<run, sample, allowShort, styles, tbl, clk, rendered,
                   artifact, printed, prev, reg, tab>>

\* story.append(Paragraph(text, styles[name])) and
\* story.append(Preformatted(text, styles[name]))
AppendText ==
    /\ At("para") \/ At("pre")
    /\ IF HasStyle(styles, Stmt.style)
       THEN /\ story' = Append(story,
                   Block(IF Stmt.op = "para" THEN "Paragraph"
                         ELSE "Preformatted",
                         Stmt.text, styles[Stmt.style], <<>>, ""))
            /\ Step
       ELSE /\ Raise("KeyError: style not found")
            /\ UNCHANGED story
    /\ UNCHANGED <<run, sample, allowShort, styles, tbl, clk, rendered,
                   artifact, printed, prev, reg, tab>>

\* line 84: the text is formatted (the clock is read) before styles['Normal']
\* is looked up
AppendStamp ==
    /\ At("stamp")
    /\ \E now \in Clock :
          /\ clk' = Append(clk, now)
          /\ IF HasStyle(styles, Stmt.style)
             THEN /\ story' = Append(story,
                         Block("Paragraph", Stmt.text, styles[Stmt.style],
                               FormatMinute(now), ""))
                  /\ Step
             ELSE /\ Raise("KeyError: style not found")
                  /\ UNCHANGED story
    /\ UNCHANGED <<run, sample, allowShort, styles, tbl, rendered, artifact,
                   printed, prev, reg, tab>>

\* lines 468-472: the footer's style is a new ParagraphStyle whose parent is
\* styles['Normal']; it is not added to the sheet
AppendFooter ==
    /\ At("footer")
    /\ \E now \in Clock :
          /\ clk' = Append(clk, now)
          /\ IF HasStyle(styles, Stmt.parent)
             THEN /\ story' = Append(story,
                         Block("Paragraph", Stmt.text,
                               ParagraphStyle(Stmt.name, styles[Stmt.parent],
                                              Stmt.kw),
                               FormatDay(now), ""))
                  /\ Step
             ELSE /\ Raise("KeyError: style not found")
                  /\ UNCHANGED story
    /\ UNCHANGED <<run, sample, allowShort, styles, tbl, rendered, artifact,
                   printed, prev, reg, tab>>

\* story.append(Spacer(w, h))
AppendSpacer ==
    /\ At("spacer")
    /\ story' = Append(story, Block("Spacer", "", NoStyle,
                                    <<Stmt.w, Stmt.h>>, ""))
    /\ Step
    /\ UNCHANGED <<run, sample, allowShort, styles, tbl, clk, rendered,
                   artifact, printed, prev, reg, tab>>

\* story.append(PageBreak())
AppendPageBreak ==
    /\ At("pagebreak")
    /\ story' = Append(story, Block("PageBreak", "", NoStyle, <<>>, ""))
    /\ Step
    /\ UNCHANGED <<run, sample, allowShort, styles, tbl, clk, rendered,
                   artifact, printed, prev, reg, tab>>

\* x_table = Table(x_data, colWidths=[...])
TableStmt ==
    /\ At("table")
    /\ LET t == TableNew(Stmt.data, Stmt.colWidths, allowShort)
       IN  IF t.ok
           THEN /\ tbl' = [v \in DOMAIN tbl \cup {Stmt.var} |->
                              IF v = Stmt.var THEN t ELSE tbl[v]]
                /\ Step
           ELSE /\ Raise("ValueError")
                /\ UNCHANGED tbl
    /\ UNCHANGED <<run, sample, allowShort, styles, story, clk, rendered,
                   artifact, printed, prev, reg, tab>>

\* x_table.setStyle(TableStyle([...]))
SetStyleStmt ==
    /\ At("setstyle")
    /\ tbl' = [tbl EXCEPT ![Stmt.var] = TableSetStyle(@, Stmt.cmds)]
    /\ Step
    /\ UNCHANGED <<run, sample, allowShort, styles, story, clk, rendered,
                   artifact, printed, prev, reg, tab>>

\* story.append(x_table): the list holds a reference to the object
AppendTableStmt ==
    /\ At("appendtable")
    /\ story' = Append(story, Block("Table", "", NoStyle, <<>>, Stmt.var))
    /\ Step
    /\ UNCHANGED <<run, sample, allowShort, styles, tbl, clk, rendered,
                   artifact, printed, prev, reg, tab>>

\* what doc.build(story) can do to the destination file.  The script gives
\* the template the destination path itself (line 28) and has no handler
\* around the call: the document is laid out first and the file is opened
\* and written last, in place.
BuildOutcomes == {"ok", "LayoutError", "OSError"}

\* line 475: doc.build(story)
Build ==
    /\ At("build")
    /\ rendered' = View(story, tbl)
    /\ \E outcome \in BuildOutcomes :
          CASE outcome = "ok" ->
                  /\ artifact' = [state |-> "complete", run |-> run]
                  /\ Step
            [] outcome = "LayoutError" ->
                  /\ UNCHANGED artifact
                  /\ Raise("LayoutError")
            [] outcome = "OSError" ->
                  /\ artifact' = [state |-> "partial", run |-> run]
                  /\ Raise("OSError")
    /\ UNCHANGED <<run, sample, allowShort, styles, story, tbl, clk, printed,
                   prev, reg, tab>>

\* line 476
PrintDone ==
    /\ At("print")
    /\ printed' = TRUE
    /\ Step
    /\ UNCHANGED <<run, sample, allowShort, styles, story, tbl, clk, rendered,
                   artifact, prev, reg, tab>>

\* line 477
Return ==
    /\ At("return")
    /\ status' = "done"
    /\ UNCHANGED <<pc, err, run, sample, allowShort, styles, story, tbl, clk,
                   rendered, artifact, printed, prev, reg, tab>>

\* lines 479-480: after an invocation that completed, the script is invoked
\* a second time, in the same installation; the destination file is what the
\* first invocation left
Rerun ==
    /\ status = "done"
    /\ run = 1
    /\ pc' = 1
    /\ status' = "running"
    /\ err' = "none"
    /\ run' = run + 1
    /\ styles' = NoStyles
    /\ story' = <<>>
    /\ tbl' = NoTables
    /\ clk' = <<>>
    /\ rendered' = <<>>
    /\ printed' = FALSE
    /\ prev' = [story |-> View(story, tbl), clk |-> clk]
    /\ UNCHANGED <<sample, allowShort, artifact, reg, tab>>

Next ==
    \/ MakeDirs
    \/ Template
    \/ Sheet
    \/ Add
    \/ NewStory
    \/ AppendText
    \/ AppendStamp
    \/ AppendFooter
    \/ AppendSpacer
    \/ AppendPageBreak
    \/ TableStmt
    \/ SetStyleStmt
    \/ AppendTableStmt
    \/ Build
    \/ PrintDone
    \/ Return
    \/ Rerun

Spec == Init /\ [][Next]_vars

---------------------------------------------------------------------------
(* Properties of a run *)

\* the statements that append to story
IsAppend(s) ==
    s.op \in {"para", "pre", "stamp", "footer", "spacer", "pagebreak",
              "appendtable"}

\* the statements that look a style up by name for a text block, and the name
IsTextStmt(s) == s.op \in {"para", "pre", "stamp", "footer"}
LookupName(s) == IF s.op = "footer" THEN s.parent ELSE s.style

\* how many blocks the statements before index n append
BlocksBefore(n) ==
    Cardinality({i \in 1..(n - 1) : IsAppend(Program[i])})

NumBlocks == BlocksBefore(Len(Program) + 1)

\* the names the script registers itself
CustomNames ==
    {Program[i].name : i \in {j \in 1..Len(Program) : Program[j].op = "add"}}

\* the next statement is a text block naming a style the sheet does not hold
UnregisteredNext ==
    /\ status = "running"
    /\ IsTextStmt(Stmt)
    /\ ~HasStyle(styles, LookupName(Stmt))

\* C1: a text block that names a style the sheet does not hold ends the run
\* with the lookup's KeyError at that statement: the block is not appended,
\* no later block is, and doc.build is never reached, so nothing is written
\* to the destination in that run.
C1_UnregisteredStyleAborts ==
    /\ [][UnregisteredNext =>
            /\ status' = "failed"
            /\ err' = "KeyError: style not found"
            /\ pc' = pc
            /\ story' = story
            /\ artifact' = artifact]_vars
    /\ [][status = "failed" =>
            /\ status' = "failed"
            /\ story' = story
            /\ artifact' = artifact
            /\ printed' = printed]_vars
    /\ [](err = "KeyError: style not found" =>
            /\ status = "failed"
            /\ IsTextStmt(Stmt)
            /\ Len(story) = BlocksBefore(pc)
            /\ rendered = <<>>
            /\ artifact.run # run
            /\ ~printed)

\* a run that ended at a text block whose style was missing, after some
\* blocks had been appended
C1_Witness ==
    /\ status = "failed"
    /\ err = "KeyError: style not found"
    /\ Len(story) > 0
    /\ ~HasStyle(styles, LookupName(Stmt))

\* the phases in order, as the state shows them: blocks only after the four
\* styles.add, bytes only after the last block, the message only after a
\* complete write; and a run that failed before doc.build wrote nothing
PhasesInOrder ==
    /\ story # <<>> => CustomNames \subseteq DOMAIN styles
    /\ artifact.run = run =>
          /\ Len(story) = NumBlocks
          /\ Program[pc].op \in {"build", "print", "return"}
    /\ printed => artifact = [state |-> "complete", run |-> run]
    /\ (status = "failed" /\ Program[pc].op # "build") => artifact.run # run

\* C2: in every run the phases occur in the order style registration, block
\* appends, doc.build, completion message, and a failure in any phase never
\* leaves a partially written artifact.  The order holds (PhasesInOrder);
\* the last part does not: doc.build writes the destination in place, so a
\* write that fails part-way leaves the file partly written.
C2_Original ==
    /\ PhasesInOrder
    /\ status = "failed" =>
          ~(artifact.state = "partial" /\ artifact.run = run)

\* the table object a table block of the flow refers to, as the statements
\* of the script that create and style that variable leave it
StyledTable(var) ==
    LET c == CHOOSE i \in 1..Len(Program) :
                 Program[i].op = "table" /\ Program[i].var = var
        s == CHOOSE i \in 1..Len(Program) :
                 Program[i].op = "setstyle" /\ Program[i].var = var
    IN  TableSetStyle(TableNew(Program[c].data, Program[c].colWidths, FALSE),
                      Program[s].cmds)

\* C3: within a run the flow only grows, by one block at its end, and what
\* each block already in it shows the renderer never changes; a table is in
\* the flow only with its style commands applied; and doc.build receives
\* the appended blocks, in the order they were appended.
C3_AppendOnly ==
    /\ [][run' = run =>
            /\ \/ story' = story
               \/ /\ Len(story') = Len(story) + 1
                  /\ SubSeq(story', 1, Len(story)) = story
            /\ \A i \in 1..Len(story) :
                  ViewBlock(story'[i], tbl') = ViewBlock(story[i], tbl)]_vars
    /\ [](\A i \in 1..Len(story) :
            story[i].kind = "Table" =>
               tbl[story[i].ref] = StyledTable(story[i].ref))
    /\ [](rendered # <<>> => rendered = View(story, tbl))

\* a flow with a table in it has been handed to doc.build
C3_Witness ==
    /\ rendered # <<>>
    /\ \E i \in 1..Len(story) : story[i].kind = "Table"
    /\ Len(story) = NumBlocks

\* the texts of the two paragraphs that embed the generation time (lines 84
\* and 469)
StampTexts ==
    {Program[i].text : i \in {j \in 1..Len(Program) :
                                 Program[j].op \in {"stamp", "footer"}}}

\* a flow with the generation time blanked in those paragraphs
Masked(flow) ==
    [i \in 1..Len(flow) |->
        IF flow[i].kind = "Paragraph" /\ flow[i].text \in StampTexts
        THEN [flow[i] EXCEPT !.arg = <<>>]
        ELSE flow[i]]

TierRows ==
    << <<"Free", "100", "150", "1.67/sec", "60s", "No">>,
       <<"Pro", "1,000", "1,500", "16.67/sec", "60s", "No">>,
       <<"Enterprise", "10,000", "15,000", "166.67/sec", "60s", "Yes">> >>

\* the data rows of the tier table, as the claim words them
TierRowsAsStated ==
    << <<"Free", "100", "150", "1.67 per sec", "60s", "No">>,
       <<"Pro", "1,000", "1,500", "16.67 per sec", "60s", "No">>,
       <<"Enterprise", "10,000", "15,000", "166.67 per sec", "60s", "Yes">> >>

\* the rows after the header of every tier table of the flow are `rows`
TierTableHolds(rows) ==
    \A i \in 1..Len(story) :
        (story[i].kind = "Table" /\ story[i].ref = "tier_table") =>
            Tail(ViewBlock(story[i], tbl).table.data) = rows

\* C9 as amended: after its header row the tier table of the flow holds
\* exactly the rows Free, 100, 150, 1.67/sec, 60s, No; Pro, 1,000, 1,500,
\* 16.67/sec, 60s, No; Enterprise, 10,000, 15,000, 166.67/sec, 60s, Yes, in
\* that order.
C9_TierRows == TierTableHolds(TierRows)

\* the tier table is in the flow
C9_Witness ==
    \E i \in 1..Len(story) :
        /\ story[i].kind = "Table"
        /\ story[i].ref = "tier_table"
        /\ Len(ViewBlock(story[i], tbl).table.data) = 4

\* C9 as stated: the refill rates read "1.67 per sec", "16.67 per sec",
\* "166.67 per sec"
C9_Original == TierTableHolds(TierRowsAsStated)

\* block b carries the style object the sheet holds under the style's name
FromSheet(b) ==
    /\ HasStyle(styles, b.style.name)
    /\ styles[b.style.name] = b.style

IsTextBlock(b) == b.kind \in {"Paragraph", "Preformatted"}

\* the footer statement (lines 468-472)
FooterStmt ==
    Program[CHOOSE i \in 1..Len(Program) : Program[i].op = "footer"]

\* C10 as amended: every paragraph or preformatted block of the flow carries
\* the style object the sheet holds under that name, except the footer
\* paragraph, the last block, whose style 'Footer' is built on the spot from
\* styles['Normal'] and is not in the sheet.
C10_StylesFromSheet ==
    \A i \in 1..Len(story) :
        IsTextBlock(story[i]) =>
            \/ FromSheet(story[i])
            \/ /\ i = NumBlocks
               /\ story[i].text = FooterStmt.text
               /\ ~HasStyle(styles, story[i].style.name)
               /\ HasStyle(styles, "Normal")
               /\ story[i].style =
                     ParagraphStyle("Footer", styles["Normal"], FooterStmt.kw)

\* the flow is complete: its text blocks carry sheet styles, its last block
\* the footer's own
C10_Witness ==
    /\ Len(story) = NumBlocks
    /\ ~FromSheet(story[NumBlocks])
    /\ \E i \in 1..Len(story) :
          IsTextBlock(story[i]) /\ story[i].style.name = "MainTitle"
             /\ FromSheet(story[i])

\* C10 as stated: every paragraph or preformatted block carries a style of
\* the sheet
C10_Original ==
    \A i \in 1..Len(story) : IsTextBlock(story[i]) => FromSheet(story[i])

\* the number a page cell of the table of contents denotes
PageNumber(cell) ==
    LET digits == <<"0", "1", "2", "3", "4", "5", "6", "7", "8", "9">>
    IN  (CHOOSE d \in 1..Len(digits) : digits[d] = cell) - 1

\* whether block i of the flow is a heading in the SectionTitle style
IsSectionHeading(flow, i) ==
    /\ flow[i].kind = "Paragraph"
    /\ flow[i].style.name = "SectionTitle"

\* the positions of the SectionTitle headings whose text is "n. title"
HeadingPositions(flow, row) ==
    {i \in 1..Len(flow) :
        /\ IsSectionHeading(flow, i)
        /\ flow[i].text = row[1] \o " " \o row[2]}

\* the number of page-break blocks before block i
BreaksBefore(flow, i) ==
    Cardinality({j \in 1..(i - 1) : flow[j].kind = "PageBreak"})

\* the position of the table of contents in the flow
TocPosition(flow) ==
    CHOOSE i \in 1..Len(flow) :
        flow[i].kind = "Table" /\ flow[i].ref = "toc_table"

\* C11: the table of contents is consistent with the built flow: for every
\* row (n, title, page) of the table there is exactly one SectionTitle
\* heading with text "n. title", the headings come after the table and in
\* the order of its rows, and the number of page-break blocks before each
\* heading is page - 1.
C11_TocConsistent ==
    Len(story) = NumBlocks =>
        LET rows == tbl["toc_table"].data
            t    == TocPosition(story)
        IN  /\ \A r \in 1..Len(rows) :
                  /\ Cardinality(HeadingPositions(story, rows[r])) = 1
                  /\ \A i \in HeadingPositions(story, rows[r]) :
                        /\ i > t
                        /\ BreaksBefore(story, i) = PageNumber(rows[r][3]) - 1
            /\ \A r, q \in 1..Len(rows) :
                  r < q =>
                     \A i \in HeadingPositions(story, rows[r]),
                        j \in HeadingPositions(story, rows[q]) : i < j

\* the whole flow has been appended, with the six-row table of contents
\* and the last of its headings in it
C11_Witness ==
    /\ Len(story) = NumBlocks
    /\ "toc_table" \in DOMAIN tbl
    /\ Len(tbl["toc_table"].data) = 6
    /\ HeadingPositions(story, tbl["toc_table"].data[6]) # {}
    /\ Program[pc].op = "build"

---------------------------------------------------------------------------
(* The stylesheet on its own: any sequence of styles.add and styles[...]   *)
(* of the kind lines 39-72 make, on names of one inheritance chain          *)

RegNames == {"Normal", "Title", "MainTitle"}
RegRoots == {"Normal"}
RegKeys == {"fontSize", "textColor"}

\* the value style `name` gives attribute `key` when it sets it
RegValue(name, key) == name \o "." \o key

RegKw(name, keys) == [k \in keys |-> RegValue(name, k)]

NoAttempt ==
    [kind |-> "none", name |-> "", parent |-> "", ok |-> TRUE,
     err |-> "none", result |-> NoStyle]

RegInit ==
    /\ sample \in SUBSET RegRoots
    /\ styles = getSampleStyleSheet(sample)
    /\ reg = [n |-> 0,
              order |-> IF sample = {} THEN <<>> ELSE <<"Normal">>,
              seen |-> {},
              last |-> NoAttempt]
    /\ pc = 1
    /\ status = "idle"
    /\ err = "none"
    /\ run = 1
    /\ allowShort = TRUE
    /\ story = <<>>
    /\ tbl = NoTables
    /\ clk = <<>>
    /\ rendered = <<>>
    /\ artifact = [state |-> "absent", run |-> 0]
    /\ printed = FALSE
    /\ prev = NoPrev
    /\ tab = NoTable

\* styles.add(ParagraphStyle(name=name, parent=styles[parent], **kw))
RegAdd ==
    /\ reg.n < MaxRegs
    /\ \E name \in RegNames, parent \in RegNames \cup {""},
          keys \in SUBSET RegKeys :
          LET r == Register(styles, name, parent, RegKw(name, keys))
          IN  /\ styles' = r.sheet
              /\ reg' = [n |-> reg.n + 1,
                         order |-> IF r.ok THEN Append(reg.order, name)
                                   ELSE reg.order,
                         seen |-> reg.seen \cup {r.err},
                         last |-> [kind |-> "add", name |-> name,
                                   parent |-> parent, ok |-> r.ok,
                                   err |-> r.err, result |-> NoStyle]]
    /\ UNCHANGED <<pc, status, err, run, sample, allowShort, story, tbl, clk,
                   rendered, artifact, printed, prev, tab>>

\* styles[name]
RegResolve ==
    /\ \E name \in RegNames :
          reg' = [reg EXCEPT !.last =
                     [kind |-> "resolve", name |-> name, parent |-> "",
                      ok |-> HasStyle(styles, name),
                      err |-> IF HasStyle(styles, name) THEN "none"
                              ELSE "KeyError: style not found",
                      result |-> IF HasStyle(styles, name) THEN styles[name]
                                 ELSE NoStyle]]
    /\ UNCHANGED <<pc, status, err, run, sample, allowShort, styles, story,
                   tbl, clk, rendered, artifact, printed, prev, tab>>

RegNext == RegAdd \/ RegResolve

SpecReg == RegInit /\ [][RegNext]_vars

\* position of name in the order of registration, 0 when it is not there
OrderIndex(name) ==
    IF \E i \in 1..Len(reg.order) : reg.order[i] = name
    THEN CHOOSE i \in 1..Len(reg.order) : reg.order[i] = name
    ELSE 0

\* C4: a styles.add whose parent name is not in the sheet fails with the
\* lookup's KeyError, one whose own name is already in the sheet fails with
\* a KeyError too, and both leave the sheet as it was; so in every sheet
\* each name was registered once and each style's parent strictly before
\* the style.
C4_RegistrationGuards ==
    /\ [][(reg'.n = reg.n + 1) =>
            LET a == reg'.last
            IN  /\ (a.parent # "" /\ ~HasStyle(styles, a.parent)) =>
                      /\ ~a.ok
                      /\ a.err = "KeyError: parent not found"
                      /\ styles' = styles
                /\ HasStyle(styles, a.name) =>
                      /\ ~a.ok
                      /\ a.err \in {"KeyError: parent not found",
                                    "KeyError: already defined"}
                      /\ styles' = styles
                /\ a.ok => /\ ~HasStyle(styles, a.name)
                           /\ HasStyle(styles', a.name)]_vars
    /\ [](/\ DOMAIN styles = {reg.order[i] : i \in 1..Len(reg.order)}
          /\ \A i, j \in 1..Len(reg.order) :
                reg.order[i] = reg.order[j] => i = j
          /\ \A n \in DOMAIN styles :
                /\ styles[n].name = n
                /\ styles[n].parent # "" =>
                      /\ HasStyle(styles, styles[n].parent)
                      /\ OrderIndex(styles[n].parent) < OrderIndex(n))

\* both refusals have happened, and a style with a parent is in the sheet
C4_Witness ==
    /\ {"KeyError: parent not found", "KeyError: already defined"}
          \subseteq reg.seen
    /\ \E n \in DOMAIN styles : styles[n].parent # ""

RECURSIVE ChainValue(_, _, _)
\* the value of attribute k for style n found by walking the chain of parent
\* names through the sheet: the nearest style that sets k, else the default
ChainValue(sheet, n, k) ==
    IF k \in DOMAIN sheet[n].own THEN sheet[n].own[k]
    ELSE IF sheet[n].parent = "" THEN StyleDefaults[k]
    ELSE ChainValue(sheet, sheet[n].parent, k)

RECURSIVE ChainKeys(_, _)
\* the attributes set anywhere in the chain of n
ChainKeys(sheet, n) ==
    DOMAIN sheet[n].own \cup
       (IF sheet[n].parent = "" THEN {} ELSE ChainKeys(sheet, sheet[n].parent))

\* C5: the attributes a style of the sheet carries are, key by key, those of
\* the nearest style of its parent chain that sets the key, and the default
\* where none does; they include every attribute set in the chain; looking a
\* name up changes nothing, and a name once in the sheet always yields the
\* same object.
C5_ResolveChain ==
    /\ [](\A n \in DOMAIN styles :
            /\ ChainKeys(styles, n) \subseteq DOMAIN styles[n].attrs
            /\ \A k \in DOMAIN styles[n].attrs :
                  styles[n].attrs[k] = ChainValue(styles, n, k))
    /\ []((reg.last.kind = "resolve" /\ reg.last.ok) =>
            reg.last.result = styles[reg.last.name])
    /\ [][\A n \in DOMAIN styles :
            HasStyle(styles', n) /\ styles'[n] = styles[n]]_vars
    /\ [][reg'.n = reg.n => styles' = styles]_vars

\* MainTitle, child of Title, child of Normal, has been looked up: it sets
\* fontSize over Title's, takes textColor from Title and the rest by default
C5_Witness ==
    /\ reg.last.kind = "resolve"
    /\ reg.last.name = "MainTitle"
    /\ reg.last.ok
    /\ reg.last.result.parent = "Title"
    /\ styles["Title"].parent = "Normal"
    /\ "fontSize" \in DOMAIN styles["Title"].own
    /\ reg.last.result.attrs["fontSize"] = RegValue("MainTitle", "fontSize")
    /\ reg.last.result.attrs["textColor"] = RegValue("Title", "textColor")
    /\ reg.last.result.attrs["spaceAfter"] = StyleDefaults["spaceAfter"]

---------------------------------------------------------------------------
(* Table construction on its own: Table(data, colWidths) on the grids of   *)
(* the script and on small grids, rectangular and ragged                   *)

\* the (data, colWidths) of the script's eight Table(...) calls
ProgramTables ==
    {[data |-> Program[i].data, colWidths |-> Program[i].colWidths] :
        i \in {j \in 1..Len(Program) : Program[j].op = "table"}}

\* sequences over S of length 1..n
SeqsUpTo(S, n) == UNION {[1..k -> S] : k \in 1..n}

\* grids of 1..MaxRows rows of 1..MaxCols cells, with 1..MaxCols widths
SmallTables ==
    [data : SeqsUpTo(SeqsUpTo({"x"}, MaxCols), MaxRows),
     colWidths : SeqsUpTo({100}, MaxCols)]

Idle ==
    /\ pc = 1
    /\ status = "idle"
    /\ err = "none"
    /\ run = 1
    /\ sample = SampleNames
    /\ styles = NoStyles
    /\ story = <<>>
    /\ tbl = NoTables
    /\ clk = <<>>
    /\ rendered = <<>>
    /\ artifact = [state |-> "absent", run |-> 0]
    /\ printed = FALSE
    /\ prev = NoPrev
    /\ reg = <<>>

TableInit ==
    /\ Idle
    /\ allowShort \in BOOLEAN
    /\ \E t \in ProgramTables \cup SmallTables :
          tab = [phase |-> "input", data |-> t.data,
                 colWidths |-> t.colWidths, obj |-> NoTable, cmds |-> <<>>]

\* Table(data, colWidths=colWidths)
TblNew ==
    /\ tab.phase = "input"
    /\ LET t == TableNew(tab.data, tab.colWidths, allowShort)
       IN  tab' = [tab EXCEPT !.obj = t,
                              !.phase = IF t.ok THEN "built" ELSE "error"]
    /\ UNCHANGED <<pc, status, err, run, sample, allowShort, styles, story,
                   tbl, clk, rendered, artifact, printed, prev, reg>>

TableNext == TblNew

SpecTable == TableInit /\ [][TableNext]_vars

TblInput == [data |-> tab.data, colWidths |-> tab.colWidths]

\* what holds of every constructed table, whatever the library setting
ShapeHolds ==
    tab.phase # "input" =>
        /\ Rectangular(tab.data, tab.colWidths) =>
              /\ tab.phase = "built"
              /\ tab.obj.data = tab.data
              /\ tab.obj.colWidths = tab.colWidths
        /\ tab.phase = "built" => Rectangular(tab.obj.data, tab.obj.colWidths)
        /\ TblInput \in ProgramTables =>
              /\ Rectangular(tab.data, tab.colWidths)
              /\ tab.phase = "built"

---------------------------------------------------------------------------
(* Table styling on its own: any sequence of up to MaxCmds style commands   *)
(* on the script's tier table and security table                            *)

StyleOps == {"BACKGROUND", "TEXTCOLOR"}
StyleVals == {"#16213e", "#d4edda"}

\* the shapes of region the script's commands use: the whole table, the
\* header row, the rows below it, one row, one cell, one column
StyleRects ==
    { <<0, 0, -1, -1>>, <<0, 0, -1, 0>>, <<0, 1, -1, -1>>, <<0, 1, -1, 1>>,
      <<1, 1, 1, 1>>, <<2, 0, 2, -1>> }

StyleCmds ==
    {Cmd(op, r[1], r[2], r[3], r[4], v) :
        op \in StyleOps, r \in StyleRects, v \in StyleVals}

\* the (data, colWidths) of tier_table and security_table
StyledTables ==
    {[data |-> Program[i].data, colWidths |-> Program[i].colWidths] :
        i \in {j \in 1..Len(Program) :
                  /\ Program[j].op = "table"
                  /\ Program[j].var \in {"tier_table", "security_table"}}}

StyleInit ==
    /\ Idle
    /\ allowShort \in BOOLEAN
    /\ \E t \in StyledTables :
          tab = [phase |-> "built", data |-> t.data,
                 colWidths |-> t.colWidths,
                 obj |-> TableNew(t.data, t.colWidths, allowShort),
                 cmds |-> <<>>]

\* t.setStyle(TableStyle([c]))
TblSetStyle ==
    /\ tab.phase = "built"
    /\ Len(tab.cmds) < MaxCmds
    /\ \E c \in StyleCmds :
          tab' = [tab EXCEPT !.obj = TableSetStyle(@, <<c>>),
                             !.cmds = Append(@, c)]
    /\ UNCHANGED <<pc, status, err, run, sample, allowShort, styles, story,
                   tbl, clk, rendered, artifact, printed, prev, reg>>

StyleNext == TblSetStyle

SpecStyle == StyleInit /\ [][StyleNext]_vars

\* the commands of tab.cmds on attribute op that cover cell (i, j) (1-based)
Covering(op, i, j) ==
    {k \in 1..Len(tab.cmds) :
        /\ tab.cmds[k].op = op
        /\ Covers(tab.cmds[k], i - 1, j - 1, Len(tab.obj.cells),
                  Len(tab.obj.cells[1]))}

SetMax(S) == CHOOSE m \in S : \A x \in S : x <= m

\* C7: in a styled table every cell has, for each attribute, the value of
\* the last command on that attribute whose inclusive rectangle covers the
\* cell, whatever the sizes of the rectangles, independently of the
\* commands on other attributes; an attribute no command covers for the
\* cell is left at the table's default.
C7_LastRuleWins ==
    \A i \in 1..Len(tab.obj.cells) : \A j \in 1..Len(tab.obj.cells[i]) :
        \A op \in StyleOps :
            IF Covering(op, i, j) = {}
            THEN op \notin DOMAIN tab.obj.cells[i][j]
            ELSE /\ op \in DOMAIN tab.obj.cells[i][j]
                 /\ tab.obj.cells[i][j][op] =
                       tab.cmds[SetMax(Covering(op, i, j))].val

\* two commands on the same attribute with different values and regions of
\* different sizes both cover the cell in row 2, column 2; the cell has the
\* later one's value, and no command has touched its other attribute
C7_Witness ==
    /\ Len(tab.cmds) = 2
    /\ tab.cmds[1].op = "BACKGROUND"
    /\ tab.cmds[2].op = "BACKGROUND"
    /\ tab.cmds[1].val # tab.cmds[2].val
    /\ <<tab.cmds[1].sc, tab.cmds[1].sr, tab.cmds[1].ec, tab.cmds[1].er>>
          = <<1, 1, 1, 1>>
    /\ <<tab.cmds[2].sc, tab.cmds[2].sr, tab.cmds[2].ec, tab.cmds[2].er>>
          = <<0, 0, -1, -1>>
    /\ tab.obj.cells[2][2]["BACKGROUND"] = tab.cmds[2].val
    /\ "TEXTCOLOR" \notin DOMAIN tab.obj.cells[2][2]

====
